---------------------------- MODULE Spec2Model ----------------------------
(***************************************************************************)
(* Model of the premium predictor: the Express prediction server           *)
(* (src/app.js 1-176), the offline training tool train_and_serialize       *)
(* (src/app.js 177-466) and the offline calibration tool calibration_fit   *)
(* (src/README.md 243-335).                                                *)
(*                                                                         *)
(* Numbers are exact rationals extended with NaN and +/-Infinity; the      *)
(* rounding error of IEEE doubles and the sign of zero are not modelled.   *)
(***************************************************************************)
EXTENDS Integers, Sequences, FiniteSets, TLC

(***************************************************************************)
(* Bounds of the model.                                                    *)
(***************************************************************************)
NumRequests == 2

Requests == 1..NumRequests

(***************************************************************************)
(* JavaScript numbers.                                                     *)
(***************************************************************************)
Abs(x) == IF x < 0 THEN -x ELSE x

Sign(x) == IF x < 0 THEN -1 ELSE IF x > 0 THEN 1 ELSE 0

RECURSIVE GCD(_, _)
GCD(a, b) == IF b = 0 THEN a ELSE GCD(b, a % b)

NaN == [k |-> "nan"]

Inf(s) == [k |-> "inf", s |-> s]

\* the rational n/d in lowest terms, d # 0
Fin(n, d) ==
    LET g == GCD(Abs(n), Abs(d))
    IN  [k |-> "fin", n |-> Sign(d) * (n \div g), d |-> Abs(d) \div g]

Num(i) == Fin(i, 1)

Zero == Num(0)

isNaN(x) == x.k = "nan"

IsFinite(x) == x.k = "fin"

SignOf(x) == IF x.k = "inf" THEN x.s ELSE Sign(x.n)

Add(x, y) ==
    CASE isNaN(x) \/ isNaN(y) -> NaN
      [] x.k = "inf" /\ y.k = "inf" -> IF x.s = y.s THEN x ELSE NaN
      [] x.k = "inf" -> x
      [] y.k = "inf" -> y
      [] OTHER -> Fin(x.n * y.d + y.n * x.d, x.d * y.d)

Mul(x, y) ==
    CASE isNaN(x) \/ isNaN(y) -> NaN
      [] x.k = "inf" \/ y.k = "inf" ->
            IF SignOf(x) * SignOf(y) = 0 THEN NaN ELSE Inf(SignOf(x) * SignOf(y))
      [] OTHER -> Fin(x.n * y.n, x.d * y.d)

Neg(x) == Mul(Num(-1), x)

Sub(x, y) == Add(x, Neg(y))

Div(x, y) ==
    CASE isNaN(x) \/ isNaN(y) -> NaN
      [] x.k = "inf" /\ y.k = "inf" -> NaN
      [] x.k = "inf" -> Inf(IF SignOf(y) < 0 THEN -x.s ELSE x.s)
      [] y.k = "inf" -> Zero
      [] y.n = 0 -> IF x.n = 0 THEN NaN ELSE Inf(Sign(x.n))
      [] OTHER -> Fin(x.n * y.d, x.d * y.n)

Less(x, y) ==
    CASE isNaN(x) \/ isNaN(y) -> FALSE
      [] x.k = "inf" /\ y.k = "inf" -> x.s < y.s
      [] x.k = "inf" -> x.s < 0
      [] y.k = "inf" -> y.s > 0
      [] OTHER -> x.n * y.d < y.n * x.d

\* Math.max(0.0, x)
MathMax0(x) ==
    CASE isNaN(x) -> NaN
      [] Less(x, Zero) -> Zero
      [] OTHER -> x

\* Math.round(x): the integer nearest to x, a tie going up
MathRound(x) ==
    IF IsFinite(x) THEN Num((2 * x.n + x.d) \div (2 * x.d)) ELSE x

\* Math.round(x * 100) / 100
Round2(x) == Div(MathRound(Mul(x, Num(100))), Num(100))

(***************************************************************************)
(* JSON values of a request body: numbers, strings (sequences of           *)
(* characters) and null; a key that is absent reads as undefined.          *)
(***************************************************************************)
Undefined == [t |-> "undefined"]

JNull == [t |-> "null"]

JNum(x) == [t |-> "number", x |-> x]

JStr(s) == [t |-> "string", s |-> s]

Get(data, k) == IF k \in DOMAIN data THEN data[k] ELSE Undefined

\* ToBoolean, as the || operator applies it
Truthy(v) ==
    CASE v.t = "undefined" -> FALSE
      [] v.t = "null" -> FALSE
      [] v.t = "number" -> ~isNaN(v.x) /\ SignOf(v.x) # 0
      [] v.t = "string" -> Len(v.s) > 0

\* a || b
Or(a, b) == IF Truthy(a) THEN a ELSE b

Digits == <<"0", "1", "2", "3", "4", "5", "6", "7", "8", "9">>

IsDigit(c) == \E i \in 1..10 : Digits[i] = c

DigitVal(c) == (CHOOSE i \in 1..10 : Digits[i] = c) - 1

RECURSIVE SkipSpace(_)
SkipSpace(s) == IF s # <<>> /\ Head(s) = " " THEN SkipSpace(Tail(s)) ELSE s

\* the longest prefix of s made of digits
RECURSIVE DigitRun(_)
DigitRun(s) ==
    IF s # <<>> /\ IsDigit(Head(s)) THEN <<Head(s)>> \o DigitRun(Tail(s)) ELSE <<>>

RECURSIVE Drop(_, _)
Drop(s, n) == IF n = 0 THEN s ELSE Drop(Tail(s), n - 1)

RECURSIVE DigitsValue(_)
DigitsValue(s) ==
    IF s = <<>> THEN 0 ELSE 10 * DigitsValue(SubSeq(s, 1, Len(s) - 1)) + DigitVal(s[Len(s)])

RECURSIVE Pow10(_)
Pow10(n) == IF n = 0 THEN 1 ELSE 10 * Pow10(n - 1)

\* parseFloat of a string: leading blanks are skipped and the longest prefix
\* that is a decimal literal (sign, digits, fraction) is the value; NaN when
\* there is none.  Exponents and the literal Infinity are not modelled.
ParseString(str) ==
    LET s0   == SkipSpace(str)
        sgn  == IF s0 # <<>> /\ Head(s0) = "-" THEN -1 ELSE 1
        s1   == IF s0 # <<>> /\ Head(s0) \in {"-", "+"} THEN Tail(s0) ELSE s0
        ip   == DigitRun(s1)
        s2   == Drop(s1, Len(ip))
        fp   == IF s2 # <<>> /\ Head(s2) = "." THEN DigitRun(Tail(s2)) ELSE <<>>
    IN  IF ip = <<>> /\ fp = <<>>
        THEN NaN
        ELSE Mul(Num(sgn), Fin(DigitsValue(ip \o fp), Pow10(Len(fp))))

\* parseFloat(v): v is converted to a string first
parseFloat(v) ==
    CASE v.t = "number" -> v.x
      [] v.t = "string" -> ParseString(v.s)
      [] OTHER -> NaN


(***************************************************************************)
(* The prediction server, src/app.js 1-176.                                *)
(***************************************************************************)
VARIABLES
    modelFile,      \* what MODEL_PATH holds on disk
    scalerFile,     \* what SCALER_PATH holds on disk
    calibFile,      \* what CALIB_PATH holds on disk
    _model,         \* the cached model, null until loaded
    _scaler,        \* the cached scaler, null until loaded
    _calib,         \* the cached calibration, null until loaded
    reads,          \* per artifact, how many times its file was read
    writes,         \* per artifact, how many times its cache variable was set
    req,            \* per request, the position and locals of its handler
    csvFile,        \* an offline tool's input CSV, as the records parsed from it
    proc            \* an offline tool's process: pc, locals, exit code, error

fileVars == <<modelFile, scalerFile, calibFile>>

cacheVars == <<_model, _scaler, _calib, reads, writes, req>>

toolVars == <<csvFile, proc>>

\* a file that is absent or cannot be read or parsed
Missing == [t |-> "missing"]

Absent == [t |-> "absent"]

Keys == <<"Bedrooms", "Square Footage", "Age of Home", "Coverage A", "Property Value">>

three == JStr(<<"t", "h", "r", "e", "e">>)

Beds == JNum(Num(3))

SqFt == JNum(Num(2))

Age == JStr(<<"1">>)

CoverageValues == {Absent, JNum(Num(0)), JNum(Num(5))}

\* the request body express.json() hands to the handler: the keys given a value
MkBody(vals) ==
    [k \in {Keys[i] : i \in {j \in 1..5 : vals[j] # Absent}} |->
        vals[CHOOSE i \in 1..5 : Keys[i] = k]]

\* bodies whose three base fields are numeric, under every choice of the two
\* coverage keys
CoverageBodies ==
    {MkBody(<<Beds, SqFt, Age, c, p>>) : c \in CoverageValues, p \in CoverageValues}

\* bodies with fields left out or not numeric
DefectBodies ==
    {MkBody(v) : v \in
        {<<Absent, SqFt, Age, JNum(Num(5)), Absent>>,
         <<Beds, Absent, Age, JNum(Num(5)), Absent>>,
         <<Beds, SqFt, Absent, JNum(Num(5)), Absent>>,
         <<Absent, SqFt, Absent, Absent, JNum(Num(5))>>,
         <<three, SqFt, Absent, Absent, Absent>>,
         <<Absent, Absent, Absent, Absent, Absent>>,
         <<three, SqFt, Age, JNum(Num(5)), Absent>>,
         <<JStr(<<"3", "x">>), SqFt, Age, JNum(Num(5)), Absent>>,
         <<Beds, SqFt, Age, three, Absent>>,
         <<Beds, SqFt, Age, Absent, three>>}}

Bodies == CoverageBodies \cup DefectBodies

\* the persisted model: premium = w . x + b
ModelFiles == {Missing, [w |-> <<Num(1), Num(0), Num(1), Num(0)>>, b |-> Num(-3)]}

\* the persisted scaler; the second has a column of zero variance
ScalerFiles ==
    {Missing,
     [mean |-> <<Num(1), Num(0), Num(0), Num(0)>>,
      scale |-> <<Num(16), Num(1), Num(1), Num(1)>>],
     [mean |-> <<Num(1), Num(0), Num(0), Num(0)>>,
      scale |-> <<Num(16), Num(1), Num(0), Num(1)>>]}

\* the persisted calibration: none, a and b, a alone, and the nulls that a
\* fit on predictions of zero variance writes
CalibFiles ==
    {Missing,
     [a |-> JNum(Fin(1, 2)), b |-> JNum(Num(-1))],
     [a |-> JNum(Num(1))],
     [a |-> JNull, b |-> JNull]}

Artifacts == {"model", "scaler", "calib"}

NoResponse == [status |-> 0]

\* no offline tool runs beside the server
NoProcess == [pc |-> "none"]

\* afterFailure is history, not program state: whether some request had
\* already been answered with an error when this one arrived
IdleRequest ==
    [pc |-> "idle", body |-> <<>>, X |-> <<>>, pred |-> JNull, res |-> NoResponse,
     afterFailure |-> FALSE]

\* res.status(400).json({error: ...}) and its kin; the message is kept as the
\* sequence of its pieces
Join(seq, sep) ==
    LET RECURSIVE J(_)
        J(s) == IF Len(s) <= 1 THEN s ELSE <<Head(s), sep>> \o J(Tail(s))
    IN  J(seq)

Respond(r, status, body) == [r EXCEPT !.pc = "done", !.res = [status |-> status, body |-> body]]

InternalError(r) ==
    Respond(r, 500, [error |-> <<"Internal server error during prediction">>])

\* src/app.js 72-79
scaleFeatures(X, scaler) ==
    [i \in 1..Len(X) |-> Div(Sub(X[i], scaler.mean[i]), scaler.scale[i])]

\* _model.predict on one row: the dense layer's w . x + b
RECURSIVE Dot(_, _)
Dot(w, x) == IF w = <<>> THEN Zero ELSE Add(Mul(Head(w), Head(x)), Dot(Tail(w), Tail(x)))

predict(model, Xs) == Add(Dot(model.w, Xs), model.b)

requiredBase == <<"Bedrooms", "Square Footage", "Age of Home">>

\* src/app.js 101
covA(data) == Or(Get(data, "Coverage A"), Get(data, "Property Value"))

\* src/app.js 103-107
missing(data) ==
    SelectSeq(requiredBase, LAMBDA k : k \notin DOMAIN data)
        \o (IF covA(data) = Undefined THEN <<"Coverage A (or Property Value)">> ELSE <<>>)

\* src/app.js 116-121
parsed(data) ==
    <<parseFloat(Get(data, "Bedrooms")), parseFloat(Get(data, "Square Footage")),
      parseFloat(covA(data)), parseFloat(Get(data, "Age of Home"))>>

\* src/app.js 98-140: the handler from the body's validation to the await of
\* the prediction's data
Validate(r, model, scaler) ==
    LET data == r.body
        X    == parsed(data)
    IN  IF Len(missing(data)) > 0
        THEN Respond(r, 400, [error |-> <<"Missing fields: ">> \o Join(missing(data), ", ")])
        ELSE IF \E i \in 1..4 : isNaN(X[i])
        THEN Respond(r, 400, [error |-> <<"Invalid input types: ", "Invalid number format">>])
        ELSE [r EXCEPT !.pc = "predict", !.X = X,
                       !.pred = predict(model, scaleFeatures(X, scaler))]

\* JSON.stringify of a number: NaN and the infinities are written as null
JsonNumber(x) == IF IsFinite(x) THEN JNum(x) ELSE JNull

\* ToNumber of a JSON value in arithmetic: null counts as 0
ToNumber(v) ==
    CASE v.t = "number" -> v.x
      [] v.t = "null" -> Zero
      [] v.t = "string" -> IF v.s = <<>> THEN Zero ELSE ParseString(v.s)
      [] OTHER -> NaN

\* calibrate without the floor at 0
calibrate_NoFloor(pred, calib) ==
    IF calib # JNull /\ "a" \in DOMAIN calib /\ "b" \in DOMAIN calib
    THEN Add(Mul(ToNumber(calib.a), pred), ToNumber(calib.b))
    ELSE pred

\* calibrate with the floor at 0 applied whether or not calibration is loaded
calibrate_AlwaysFloor(pred, calib) ==
    IF calib # JNull /\ "a" \in DOMAIN calib /\ "b" \in DOMAIN calib
    THEN MathMax0(Add(Mul(ToNumber(calib.a), pred), ToNumber(calib.b)))
    ELSE MathMax0(pred)

\* src/app.js 148-153
calibrate(pred, calib) ==
    IF calib # JNull /\ "a" \in DOMAIN calib /\ "b" \in DOMAIN calib
    THEN MathMax0(Add(Mul(ToNumber(calib.a), pred), ToNumber(calib.b)))
    ELSE pred

\* src/app.js 60-70, entered: the file is read when nothing is cached
EnterCalibration(r, model, scaler, calib) ==
    IF calib = JNull
    THEN [r EXCEPT !.pc = "loadCalibration"]
    ELSE Validate(r, model, scaler)

\* src/app.js 52-58, entered
EnterScaler(r, model, scaler, calib) ==
    IF scaler = JNull
    THEN [r EXCEPT !.pc = "loadScaler"]
    ELSE EnterCalibration(r, model, scaler, calib)

\* src/app.js 27-50, entered
EnterModel(r, model, scaler, calib) ==
    IF model = JNull
    THEN [r EXCEPT !.pc = "loadModel"]
    ELSE EnterScaler(r, model, scaler, calib)

\* the read a handler starts when it suspends in a loader
Started(rd, r) ==
    CASE r.pc = "loadModel" -> [rd EXCEPT !.model = @ + 1]
      [] r.pc = "loadScaler" -> [rd EXCEPT !.scaler = @ + 1]
      [] r.pc = "loadCalibration" -> [rd EXCEPT !.calib = @ + 1]
      [] OTHER -> rd

ServerInit ==
    /\ modelFile \in ModelFiles
    /\ scalerFile \in ScalerFiles
    /\ calibFile \in CalibFiles
    /\ _model = JNull
    /\ _scaler = JNull
    /\ _calib = JNull
    /\ reads = [a \in Artifacts |-> 0]
    /\ writes = [a \in Artifacts |-> 0]
    /\ req = [i \in Requests |-> IdleRequest]
    /\ csvFile = Missing
    /\ proc = NoProcess

\* POST /predict arrives and runs to its first suspension (src/app.js 92-94)
Receive(i) ==
    /\ req[i].pc = "idle"
    /\ \E body \in Bodies :
        LET late == \E k \in Requests : req[k].pc = "done" /\ req[k].res.status # 200
            r == EnterModel([req[i] EXCEPT !.body = body, !.afterFailure = late],
                            _model, _scaler, _calib)
        IN  /\ req' = [req EXCEPT ![i] = r]
            /\ reads' = Started(reads, r)
    /\ UNCHANGED <<fileVars, toolVars, _model, _scaler, _calib, writes>>

\* tf.loadLayersModel settles (src/app.js 47-49, then 95)
ModelLoaded(i) ==
    /\ req[i].pc = "loadModel"
    /\ IF modelFile = Missing
       THEN /\ req' = [req EXCEPT ![i] = InternalError(req[i])]
            /\ UNCHANGED <<_model, reads, writes>>
       ELSE LET r == EnterScaler(req[i], modelFile, _scaler, _calib)
            IN  /\ _model' = modelFile
                /\ writes' = [writes EXCEPT !.model = @ + 1]
                /\ req' = [req EXCEPT ![i] = r]
                /\ reads' = Started(reads, r)
    /\ UNCHANGED <<fileVars, toolVars, _scaler, _calib>>

\* fs.readFile(SCALER_PATH) settles (src/app.js 54-57, then 96)
ScalerLoaded(i) ==
    /\ req[i].pc = "loadScaler"
    /\ IF scalerFile = Missing
       THEN /\ req' = [req EXCEPT ![i] = InternalError(req[i])]
            /\ UNCHANGED <<_scaler, reads, writes>>
       ELSE LET r == EnterCalibration(req[i], _model, scalerFile, _calib)
            IN  /\ _scaler' = scalerFile
                /\ writes' = [writes EXCEPT !.scaler = @ + 1]
                /\ req' = [req EXCEPT ![i] = r]
                /\ reads' = Started(reads, r)
    /\ UNCHANGED <<fileVars, toolVars, _model, _calib>>

\* fs.readFile(CALIB_PATH) settles (src/app.js 62-69, then 98-140)
CalibrationLoaded(i) ==
    /\ req[i].pc = "loadCalibration"
    /\ IF calibFile = Missing
       THEN /\ _calib' = JNull
            /\ UNCHANGED writes
       ELSE /\ _calib' = calibFile
            /\ writes' = [writes EXCEPT !.calib = @ + 1]
    /\ req' = [req EXCEPT ![i] = Validate(req[i], _model, _scaler)]
    /\ UNCHANGED <<fileVars, toolVars, _model, _scaler, reads>>

\* predTensor.data() settles (src/app.js 141-160)
Predicted(i) ==
    /\ req[i].pc = "predict"
    /\ req' = [req EXCEPT ![i] =
            Respond(req[i], 200,
                [predicted_premium |-> JsonNumber(Round2(calibrate(req[i].pred, _calib)))])]
    /\ UNCHANGED <<fileVars, toolVars, _model, _scaler, _calib, reads, writes>>

ServerNext ==
    \E i \in Requests :
        \/ Receive(i)
        \/ ModelLoaded(i)
        \/ ScalerLoaded(i)
        \/ CalibrationLoaded(i)
        \/ Predicted(i)

(***************************************************************************)
(* The offline tools.  A tool is one process that runs to completion;      *)
(* proc holds its position and its locals, csvFile the records Papa.parse  *)
(* yields for its input file.  A write that fails is taken to leave        *)
(* nothing behind.                                                         *)
(***************************************************************************)
MaxRows == 3

MaxSamples == 3

Running == -1

\* main().catch(err => { console.error('Error:', err); process.exit(1); })
\* src/app.js 463-466, src/README.md 332-335
Exit1(p, err) == [p EXCEPT !.pc = "exit", !.exitCode = 1, !.error = err]

\* main() returned and the event loop drained
Exit0(p) == [p EXCEPT !.pc = "exit", !.exitCode = 0]

IOError(what) == [name |-> "Error", message |-> <<what>>]

TypeError(what) == [name |-> "TypeError", message |-> <<what>>]

Without(row, cols) == [c \in DOMAIN row \ cols |-> row[c]]

With(row, col, v) == [c \in DOMAIN row \cup {col} |-> IF c = col THEN v ELSE row[c]]

RECURSIVE Sum(_)
Sum(xs) == IF xs = <<>> THEN Zero ELSE Add(Head(xs), Sum(Tail(xs)))

Floor(x) == x.n \div x.d

\* the server is not running
NoServer ==
    /\ _model = JNull
    /\ _scaler = JNull
    /\ _calib = JNull
    /\ reads = [a \in Artifacts |-> 0]
    /\ writes = [a \in Artifacts |-> 0]
    /\ req = [i \in Requests |-> IdleRequest]


(***************************************************************************)
(* train_and_serialize, src/app.js 177-466.                                *)
(***************************************************************************)
Headers ==
    {<<"Bedrooms", "Square Footage", "Coverage A", "Age of Home", "Premiums Per Policy">>,
     <<"ZIP Code", "Bedrooms", "Square Footage", "Property Value", "Year Built",
       "Has Garage", "Premiums Per Policy">>,
     <<"Bedrooms", "Square Footage", "Coverage A", "Age of Home">>,
     <<"Bedrooms", "Square Footage", "Age of Home", "Premiums Per Policy">>,
     <<"Square Footage", "Coverage A", "Premiums Per Policy">>}

\* the cell of a column in the i-th data row
Cell(col, i) ==
    CASE col = "Has Garage" ->
            IF i % 2 = 1 THEN JStr(<<" ", "Y", "e", "s">>) ELSE JStr(<<"N", "o">>)
      [] col = "Year Built" -> JNum(Num(2000 + i))
      [] col = "Bedrooms" -> JNum(Num(i))
      [] col = "Premiums Per Policy" -> JNum(Num(7 * i))
      [] OTHER -> JNum(Num(i * i + 1))

\* header: true gives each record the header's names for the fields its line
\* has; a line with fewer fields gives a record without the trailing names
CsvRecords(header, counts) ==
    [i \in 1..Len(counts) |->
        [c \in {header[j] : j \in 1..counts[i]} |-> Cell(c, i)]]

ShortLine == 2

Csv(records) == [t |-> "csv", records |-> records]

TrainCsvFiles ==
    {Missing} \cup
    UNION {{Csv(CsvRecords(h, counts)) :
                counts \in UNION {[1..n -> {Len(h), ShortLine}] : n \in 0..MaxRows}} :
           h \in Headers}

ReferenceYear == 2025

dropCols == {"ZIP Code", "Year"}

ynCols == {"Has Swimming Pool", "Security System Installed", "Has Garage", "Has Basement"}

\* String.prototype.trim
RECURSIVE TrimEnd(_)
TrimEnd(s) == IF s # <<>> /\ s[Len(s)] = " " THEN TrimEnd(SubSeq(s, 1, Len(s) - 1)) ELSE s

trim(s) == TrimEnd(SkipSpace(s))

Upper == <<"Y", "E", "S", "N", "O">>

Lower == <<"y", "e", "s", "n", "o">>

toLowerCase(s) ==
    [i \in 1..Len(s) |->
        IF \E j \in 1..5 : Upper[j] = s[i]
        THEN Lower[CHOOSE j \in 1..5 : Upper[j] = s[i]]
        ELSE s[i]]

\* src/app.js 257-264, on one row
YesNo(row) ==
    [c \in DOMAIN row |->
        IF c \in ynCols /\ row[c].t = "string"
        THEN IF toLowerCase(trim(row[c].s)) = <<"y", "e", "s">>
             THEN JNum(Num(1)) ELSE JNum(Zero)
        ELSE row[c]]

\* src/app.js 241-247, on one row
DeriveAge(row) ==
    IF "Year Built" \in DOMAIN row /\ "Age of Home" \notin DOMAIN row
    THEN Without(With(row, "Age of Home",
                      JNum(Sub(Num(ReferenceYear), ToNumber(row["Year Built"])))),
                 {"Year Built"})
    ELSE row

\* src/app.js 231-267
preprocessData(df) == [i \in 1..Len(df) |-> YesNo(DeriveAge(Without(df[i], dropCols)))]

features == <<"Bedrooms", "Square Footage", "Coverage A", "Age of Home">>

\* src/app.js 380
missingFeats(df) == SelectSeq(features, LAMBDA f : f \notin DOMAIN df[1])

\* src/app.js 366-376, the rows once Coverage A is resolved
ResolveCoverage(df) ==
    IF "Coverage A" \in DOMAIN df[1]
    THEN df
    ELSE [i \in 1..Len(df) |-> With(df[i], "Coverage A", Get(df[i], "Property Value"))]

LcgMultiplier == 9301

LcgIncrement == 49297

LcgModulus == 233280

DefaultSeed == 42

\* testSize = 0.33
DefaultTestSize == Fin(33, 100)

\* src/app.js 275-278: the generator's next state (rng * 9301 + 49297) % 233280,
\* where % is JavaScript's, whose remainder has the sign of the dividend.
\* The product is taken in two parts, each reduced, to stay inside the
\* checker's integers; the dividend is below 0 exactly when rng is below
\* -(49297 \div 9301).
seededRandom(rng) ==
    LET r    == rng % LcgModulus
        high == ((r * (LcgMultiplier \div 100)) % LcgModulus) * 100
        m    == (high + r * (LcgMultiplier % 100) + LcgIncrement) % LcgModulus
    IN  IF rng >= 0 - (LcgIncrement \div LcgMultiplier) \/ m = 0
        THEN m
        ELSE m - LcgModulus

\* the index array of n rows with the keys a swap may touch: key k + 1 is
\* the JavaScript key k, so the keys up to 0 are the negative keys, which
\* are properties beside the elements; 0 stands for undefined
IndexArray(n) == [k \in (1 - n)..n |-> IF k >= 1 THEN k ELSE 0]

\* src/app.js 274-283: the pass of the Fisher-Yates shuffle from 0-based
\* position i down to 1, rng being the generator's state
RECURSIVE Shuffle(_, _, _)
Shuffle(indices, rng, i) ==
    IF i <= 0
    THEN indices
    ELSE LET next == seededRandom(rng)
             j    == (next * (i + 1)) \div LcgModulus
             swapped == [indices EXCEPT ![i + 1] = indices[j + 1], ![j + 1] = indices[i + 1]]
         IN  Shuffle(swapped, next, i - 1)

\* X[i] for an index the shuffle left: X[undefined] is undefined
RowAt(X, i) == IF i = 0 THEN Undefined ELSE X[i]

\* src/app.js 269-295
trainTestSplit(X, y, testSize, randomState) ==
    LET n        == Len(X)
        shuffled == Shuffle(IndexArray(n), randomState, n - 1)
        indices  == [k \in 1..n |-> shuffled[k]]
        splitIdx == Floor(Mul(Num(n), Sub(Num(1), testSize)))
        trainIndices == SubSeq(indices, 1, splitIdx)
        testIndices  == SubSeq(indices, splitIdx + 1, n)
    IN  [indices |-> indices,
         trainIndices |-> trainIndices,
         testIndices |-> testIndices,
         X_train |-> [k \in 1..Len(trainIndices) |-> RowAt(X, trainIndices[k])],
         X_test |-> [k \in 1..Len(testIndices) |-> RowAt(X, testIndices[k])],
         y_train |-> [k \in 1..Len(trainIndices) |-> RowAt(y, trainIndices[k])],
         y_test |-> [k \in 1..Len(testIndices) |-> RowAt(y, testIndices[k])]]

\* Math.sqrt, kept symbolic
Sqrt(x) == IF isNaN(x) \/ x = Zero THEN x ELSE [k |-> "sqrt", of |-> x]

\* src/app.js 297-327, for a training set that has a first row
standardScaler(X_train) ==
    LET numFeatures == Len(X_train[1])
        n           == Num(Len(X_train))
        column(j)   == [i \in 1..Len(X_train) |-> ToNumber(X_train[i][j])]
        mean        == [j \in 1..numFeatures |-> Div(Sum(column(j)), n)]
        sq(j)       == [i \in 1..Len(X_train) |->
                            Mul(Sub(column(j)[i], mean[j]), Sub(column(j)[i], mean[j]))]
    IN  [mean |-> mean, scale |-> [j \in 1..numFeatures |-> Sqrt(Div(Sum(sq(j)), n))]]

TrainInit ==
    /\ NoServer
    /\ csvFile \in TrainCsvFiles
    /\ proc = [pc |-> "loadCSV", df |-> <<>>, X |-> <<>>, y |-> <<>>, split |-> <<>>,
               scaler |-> <<>>, model |-> <<>>, exitCode |-> Running, error |-> <<>>]
    /\ modelFile = Missing
    /\ scalerFile = Missing
    /\ calibFile = Missing

\* src/app.js 361, 218-229
TrainLoadCSV ==
    /\ proc.pc = "loadCSV"
    /\ proc' = IF csvFile = Missing
               THEN Exit1(proc, IOError("ENOENT"))
               ELSE [proc EXCEPT !.pc = "preprocess", !.df = csvFile.records]
    /\ UNCHANGED <<csvFile, fileVars, cacheVars>>

\* src/app.js 364
TrainPreprocess ==
    /\ proc.pc = "preprocess"
    /\ proc' = [proc EXCEPT !.pc = "schema", !.df = preprocessData(proc.df)]
    /\ UNCHANGED <<csvFile, fileVars, cacheVars>>

\* src/app.js 366-384
TrainCheckSchema ==
    /\ proc.pc = "schema"
    /\ proc' =
        IF proc.df = <<>>
        THEN Exit1(proc, TypeError("Cannot read properties of undefined"))
        ELSE IF "Coverage A" \notin DOMAIN proc.df[1] /\ "Property Value" \notin DOMAIN proc.df[1]
        THEN Exit1(proc, [name |-> "Error",
                          message |-> <<"CSV must include ", "Coverage A", " or ", "Property Value">>])
        ELSE IF Len(missingFeats(ResolveCoverage(proc.df))) > 0
        THEN Exit1(proc, [name |-> "Error",
                          message |-> <<"CSV is missing required columns: ">>
                                        \o Join(missingFeats(ResolveCoverage(proc.df)), ", ")])
        ELSE [proc EXCEPT !.pc = "split", !.df = ResolveCoverage(proc.df)]
    /\ UNCHANGED <<csvFile, fileVars, cacheVars>>

\* src/app.js 386-391
TrainSplit ==
    /\ proc.pc = "split"
    /\ LET X == [i \in 1..Len(proc.df) |-> [j \in 1..4 |-> Get(proc.df[i], features[j])]]
           y == [i \in 1..Len(proc.df) |-> Get(proc.df[i], "Premiums Per Policy")]
       IN  proc' = [proc EXCEPT !.pc = "scale", !.X = X, !.y = y,
                        !.split = trainTestSplit(X, y, DefaultTestSize, DefaultSeed)]
    /\ UNCHANGED <<csvFile, fileVars, cacheVars>>

\* src/app.js 393-396
TrainScale ==
    /\ proc.pc = "scale"
    /\ proc' = IF proc.split.X_train = <<>>
               THEN Exit1(proc, TypeError("Cannot read properties of undefined"))
               ELSE [proc EXCEPT !.pc = "fit", !.scaler = standardScaler(proc.split.X_train)]
    /\ UNCHANGED <<csvFile, fileVars, cacheVars>>

\* src/app.js 398-430: the tensors are built and the model is fit, or
\* TensorFlow throws
TrainFit ==
    /\ proc.pc = "fit"
    /\ \/ proc' = [proc EXCEPT !.pc = "evaluate", !.model = [fitOn |-> proc.split.trainIndices]]
       \/ proc' = Exit1(proc, IOError("tf"))
    /\ UNCHANGED <<csvFile, fileVars, cacheVars>>

\* src/app.js 432-439
TrainEvaluate ==
    /\ proc.pc = "evaluate"
    /\ \/ proc' = [proc EXCEPT !.pc = "saveModel"]
       \/ proc' = Exit1(proc, IOError("tf"))
    /\ UNCHANGED <<csvFile, fileVars, cacheVars>>

\* src/app.js 441-443
TrainSaveModel ==
    /\ proc.pc = "saveModel"
    /\ \/ /\ modelFile' = proc.model
          /\ proc' = [proc EXCEPT !.pc = "saveScaler"]
       \/ /\ proc' = Exit1(proc, IOError("EACCES"))
          /\ UNCHANGED modelFile
    /\ UNCHANGED <<csvFile, scalerFile, calibFile, cacheVars>>

\* src/app.js 445-450
TrainSaveScaler ==
    /\ proc.pc = "saveScaler"
    /\ \/ /\ scalerFile' = proc.scaler
          /\ proc' = [proc EXCEPT !.pc = "cleanup"]
       \/ /\ proc' = Exit1(proc, IOError("EACCES"))
          /\ UNCHANGED scalerFile
    /\ UNCHANGED <<csvFile, modelFile, calibFile, cacheVars>>

\* src/app.js 452-459
TrainFinish ==
    /\ proc.pc = "cleanup"
    /\ proc' = Exit0(proc)
    /\ UNCHANGED <<csvFile, fileVars, cacheVars>>

TrainNext ==
    \/ TrainLoadCSV
    \/ TrainPreprocess
    \/ TrainCheckSchema
    \/ TrainSplit
    \/ TrainScale
    \/ TrainFit
    \/ TrainEvaluate
    \/ TrainSaveModel
    \/ TrainSaveScaler
    \/ TrainFinish

(***************************************************************************)
(* calibration_fit, src/README.md 243-335.                                 *)
(***************************************************************************)
Sample(cov, actual) ==
    [c \in {"Bedrooms", "Square Footage", "Coverage A", "Age of Home", "ActualPremium"} |->
        CASE c = "Bedrooms" -> Beds
          [] c = "Square Footage" -> SqFt
          [] c = "Coverage A" -> JNum(Num(cov))
          [] c = "Age of Home" -> JNum(Num(1))
          [] c = "ActualPremium" -> JNum(Num(actual))]

Samples == {Sample(cov, actual) : cov \in {0, 5}, actual \in {1, 4}}

CalibCsvFiles ==
    {Missing} \cup {Csv(rows) : rows \in UNION {[1..n -> Samples] : n \in 1..MaxSamples}}

\* src/README.md 265-283
linearRegression(X, y) ==
    LET n     == Num(Len(X))
        sumX  == Sum(X)
        sumY  == Sum(y)
        sumXY == Sum([i \in 1..Len(X) |-> Mul(X[i], y[i])])
        sumX2 == Sum([i \in 1..Len(X) |-> Mul(X[i], X[i])])
        meanX == Div(sumX, n)
        meanY == Div(sumY, n)
        a     == Div(Sub(sumXY, Mul(Mul(n, meanX), meanY)),
                     Sub(sumX2, Mul(Mul(n, meanX), meanX)))
        b     == Sub(meanY, Mul(a, meanX))
    IN  [a |-> a, b |-> b]

\* alpha = 0.3
alpha == Fin(3, 10)

\* src/README.md 314-319
shrink(fit) ==
    [a |-> Add(Mul(Sub(Num(1), alpha), fit.a), Mul(alpha, Num(1))),
     b |-> Add(Mul(Sub(Num(1), alpha), fit.b), Mul(alpha, Zero))]

\* JSON.stringify(calibration, null, 2), read back
CalibJson(calibration) == [a |-> JsonNumber(calibration.a), b |-> JsonNumber(calibration.b)]

CalibInit ==
    /\ NoServer
    /\ csvFile \in CalibCsvFiles
    /\ proc = [pc |-> "loadCSV", df |-> <<>>, X |-> <<>>, yTrue |-> <<>>, model |-> JNull,
               scaler |-> JNull, yPred |-> <<>>, calibration |-> <<>>,
               exitCode |-> Running, error |-> <<>>]
    /\ modelFile \in ModelFiles
    /\ scalerFile \in {f \in ScalerFiles :
                        f = Missing \/ \A j \in 1..Len(f.scale) : f.scale[j] # Zero}
    /\ calibFile = Missing

\* src/README.md 286-291
CalibLoadCSV ==
    /\ proc.pc = "loadCSV"
    /\ proc' =
        IF csvFile = Missing
        THEN Exit1(proc, IOError("ENOENT"))
        ELSE LET df == csvFile.records
             IN  [proc EXCEPT !.pc = "loadModel", !.df = df,
                    !.X = [i \in 1..Len(df) |-> [j \in 1..4 |-> Get(df[i], features[j])]],
                    !.yTrue = [i \in 1..Len(df) |-> ToNumber(Get(df[i], "ActualPremium"))]]
    /\ UNCHANGED <<csvFile, fileVars, cacheVars>>

\* src/README.md 293-294
CalibLoadModel ==
    /\ proc.pc = "loadModel"
    /\ proc' = IF modelFile = Missing
               THEN Exit1(proc, IOError("ENOENT"))
               ELSE [proc EXCEPT !.pc = "loadScaler", !.model = modelFile]
    /\ UNCHANGED <<csvFile, fileVars, cacheVars>>

\* src/README.md 295-296
CalibLoadScaler ==
    /\ proc.pc = "loadScaler"
    /\ proc' = IF scalerFile = Missing
               THEN Exit1(proc, IOError("ENOENT"))
               ELSE [proc EXCEPT !.pc = "predict", !.scaler = scalerFile]
    /\ UNCHANGED <<csvFile, fileVars, cacheVars>>

\* src/README.md 298-308
CalibPredict ==
    /\ proc.pc = "predict"
    /\ proc' = [proc EXCEPT !.pc = "fit",
                    !.yPred = [i \in 1..Len(proc.X) |->
                        predict(proc.model,
                                scaleFeatures([j \in 1..4 |-> ToNumber(proc.X[i][j])],
                                              proc.scaler))]]
    /\ UNCHANGED <<csvFile, fileVars, cacheVars>>

\* src/README.md 310-319
CalibFit ==
    /\ proc.pc = "fit"
    /\ proc' = [proc EXCEPT !.pc = "save",
                    !.calibration = shrink(linearRegression(proc.yPred, proc.yTrue))]
    /\ UNCHANGED <<csvFile, fileVars, cacheVars>>

\* src/README.md 321-323
CalibSave ==
    /\ proc.pc = "save"
    /\ \/ /\ calibFile' = CalibJson(proc.calibration)
          /\ proc' = [proc EXCEPT !.pc = "cleanup"]
       \/ /\ proc' = Exit1(proc, IOError("EACCES"))
          /\ UNCHANGED calibFile
    /\ UNCHANGED <<csvFile, modelFile, scalerFile, cacheVars>>

\* src/README.md 325-330
CalibFinish ==
    /\ proc.pc = "cleanup"
    /\ proc' = Exit0(proc)
    /\ UNCHANGED <<csvFile, fileVars, cacheVars>>

CalibNext ==
    \/ CalibLoadCSV
    \/ CalibLoadModel
    \/ CalibLoadScaler
    \/ CalibPredict
    \/ CalibFit
    \/ CalibSave
    \/ CalibFinish

(***************************************************************************)
(* trainTestSplit called on its own, twice on the same arguments.          *)
(***************************************************************************)
MaxSplitRows == 4

\* seeds below 0, at 0, the default, and at and above the modulus
SplitSeeds == {-7, -6, -1, 0, 1, DefaultSeed, LcgModulus - 1, LcgModulus + DefaultSeed}

SplitFractions == {Zero, Fin(1, 3), DefaultTestSize, Fin(1, 2), Num(1)}

\* n rows of one feature, each paired with its target
SplitRows(n) == [i \in 1..n |-> <<JNum(Num(i))>>]

SplitTargets(n) == [i \in 1..n |-> JNum(Num(7 * i))]

SplitInit ==
    /\ NoServer
    /\ csvFile = Missing
    /\ modelFile = Missing
    /\ scalerFile = Missing
    /\ calibFile = Missing
    /\ \E n \in 0..MaxSplitRows, seed \in SplitSeeds, fraction \in SplitFractions :
          proc = [pc |-> "call", X |-> SplitRows(n), y |-> SplitTargets(n),
                  testSize |-> fraction, randomState |-> seed,
                  split |-> <<>>, again |-> <<>>]

\* src/app.js 269-295, a first call
SplitCall ==
    /\ proc.pc = "call"
    /\ proc' = [proc EXCEPT !.pc = "recall",
                     !.split = trainTestSplit(proc.X, proc.y, proc.testSize, proc.randomState)]
    /\ UNCHANGED <<csvFile, fileVars, cacheVars>>

\* src/app.js 269-295, a second call on the same arguments: rng is a local
\* of the call, set from randomState again
SplitRecall ==
    /\ proc.pc = "recall"
    /\ proc' = [proc EXCEPT !.pc = "returned",
                     !.again = trainTestSplit(proc.X, proc.y, proc.testSize, proc.randomState)]
    /\ UNCHANGED <<csvFile, fileVars, cacheVars>>

SplitNext ==
    \/ SplitCall
    \/ SplitRecall

vars == <<fileVars, cacheVars, toolVars>>

Init == ServerInit

Next == ServerNext

Spec == Init /\ [][Next]_vars

TrainSpec == TrainInit /\ [][TrainNext]_vars

CalibSpec == CalibInit /\ [][CalibNext]_vars

\* the event loop runs the continuation of every promise that has settled;
\* the arrival of a request is left to the clients.  This is the weak
\* fairness of each continuation, written with its enabling condition, which
\* is its guard: a continuation that stays pending forever is run.
ServerFairness ==
    \A i \in Requests :
        /\ <>[](req[i].pc = "loadModel") => []<><<ModelLoaded(i)>>_vars
        /\ <>[](req[i].pc = "loadScaler") => []<><<ScalerLoaded(i)>>_vars
        /\ <>[](req[i].pc = "loadCalibration") => []<><<CalibrationLoaded(i)>>_vars
        /\ <>[](req[i].pc = "predict") => []<><<Predicted(i)>>_vars

FairSpec == Init /\ [][Next]_vars /\ ServerFairness

SplitSpec == SplitInit /\ [][SplitNext]_vars

(***************************************************************************)
(* Claims about the prediction server.                                     *)
(***************************************************************************)
Range(f) == {f[x] : x \in DOMAIN f}

Done(i) == req[i].pc = "done"

\* the value is a number, or a text that is a decimal literal from end to end
IsRealNumber(v) ==
    \/ v.t = "number" /\ IsFinite(v.x)
    \/ /\ v.t = "string"
       /\ LET s1 == IF v.s # <<>> /\ Head(v.s) \in {"-", "+"} THEN Tail(v.s) ELSE v.s
              ip == DigitRun(s1)
              s2 == Drop(s1, Len(ip))
              fp == IF s2 # <<>> /\ Head(s2) = "." THEN DigitRun(Tail(s2)) ELSE <<>>
          IN  /\ ip \o fp # <<>>
              /\ Len(s1) = Len(ip) + Len(fp) + (IF s2 # <<>> /\ Head(s2) = "." THEN 1 ELSE 0)

\* the fields the request contract requires and the body lacks
LackedFields(data) ==
    {k \in Range(requiredBase) : k \notin DOMAIN data}
        \cup (IF "Coverage A" \notin DOMAIN data /\ "Property Value" \notin DOMAIN data
              THEN {"Coverage A (or Property Value)"} ELSE {})

\* the key the coverage feature comes from
CoverageKey(data) == IF "Coverage A" \in DOMAIN data THEN "Coverage A" ELSE "Property Value"

FeatureKeys(data) == Range(requiredBase) \cup {CoverageKey(data)}

\* the fields whose value is not a real number
OffendingFields(data) == {k \in FeatureKeys(data) : ~IsRealNumber(data[k])}

WellFormed(data) == LackedFields(data) = {} /\ OffendingFields(data) = {}

\* some piece of the message mentions the field
Names(message, field) ==
    \E p \in Range(message) : p = field \/ (field = "Coverage A" /\ p = "Coverage A (or Property Value)")

\* C1: each artifact file is read at most once and each cache variable is set
\* at most once, whatever the interleaving of the requests.
C1_LoadOnce == \A a \in Artifacts : reads[a] <= 1 /\ writes[a] <= 1

\* C2: a request whose body lacks a required field is answered 400 with a
\* 'Missing fields' message listing every lacked field, no prediction having
\* been computed, whatever the artifact cache holds.
C2_MissingFieldsRejected ==
    \A i \in Requests :
        Done(i) /\ LackedFields(req[i].body) # {} =>
            /\ req[i].res.status = 400
            /\ Head(req[i].res.body.error) = "Missing fields: "
            /\ \A f \in LackedFields(req[i].body) : Names(req[i].res.body.error, f)
            /\ req[i].pred = JNull

\* C3: a request with every required key and a value that is no real number
\* is answered 400 'Invalid input types' naming the offending fields, and is
\* never scaled or inferred.  Stated of the servers whose model and scaler
\* load, where no loader's failure answers in the validation's place.
C3_InvalidTypesRejected ==
    \A i \in Requests :
        (/\ Done(i) /\ modelFile # Missing /\ scalerFile # Missing
         /\ LackedFields(req[i].body) = {} /\ OffendingFields(req[i].body) # {}) =>
            /\ req[i].res.status = 400
            /\ Head(req[i].res.body.error) = "Invalid input types: "
            /\ \A f \in OffendingFields(req[i].body) : Names(req[i].res.body.error, f)
            /\ req[i].pred = JNull

\* C4: a well-formed request is answered 500 'Internal server error during
\* prediction' when the model or the scaler cannot be loaded, and 200 with a
\* predicted_premium when only the calibration file is missing.
C4_ArtifactFailures ==
    \A i \in Requests :
        Done(i) /\ WellFormed(req[i].body) =>
            /\ modelFile = Missing \/ scalerFile = Missing =>
                /\ req[i].res.status = 500
                /\ req[i].res.body.error = <<"Internal server error during prediction">>
            /\ modelFile # Missing /\ scalerFile # Missing /\ calibFile = Missing =>
                /\ req[i].res.status = 200
                /\ "predicted_premium" \in DOMAIN req[i].res.body

CalibrationActive == _calib # JNull /\ "a" \in DOMAIN _calib /\ "b" \in DOMAIN _calib

\* C5: with calibration active, a served premium is never negative, and is
\* exactly 0 when a * rawPrediction + b is below 0.
C5_ClampedAtZero ==
    \A i \in Requests :
        Done(i) /\ req[i].res.status = 200 /\ CalibrationActive =>
            LET v == req[i].res.body.predicted_premium
            IN  /\ v.t = "number" => ~Less(v.x, Zero)
                /\ Less(Add(Mul(ToNumber(_calib.a), req[i].pred), ToNumber(_calib.b)), Zero) => v = JNum(Zero)

C5_Witness ==
    \E i \in Requests :
        /\ Done(i) /\ req[i].res.status = 200 /\ CalibrationActive
        /\ Less(Add(Mul(ToNumber(_calib.a), req[i].pred), ToNumber(_calib.b)), Zero)
        /\ req[i].res.body.predicted_premium = JNum(Zero)

\* C6: with no calibration file, a served premium is the raw prediction
\* rounded to 2 decimals (a whole number of hundredths within half a hundredth
\* of it, a tie going up), negative when the raw prediction is; a raw
\* prediction that is no finite number is written as null.
C6_UncalibratedIsRaw ==
    \A i \in Requests :
        Done(i) /\ req[i].res.status = 200 /\ calibFile = Missing =>
            LET v == req[i].res.body.predicted_premium
                p == predict(modelFile, scaleFeatures(req[i].X, scalerFile))
            IN  IF IsFinite(p)
                THEN /\ v.t = "number"
                     /\ Mul(v.x, Num(100)).d = 1
                     /\ Less(Sub(p, Fin(1, 200)), v.x)
                     /\ ~Less(Add(p, Fin(1, 200)), v.x)
                ELSE v = JNull

C6_Witness ==
    \E i \in Requests :
        /\ Done(i) /\ req[i].res.status = 200 /\ calibFile = Missing
        /\ Less(req[i].pred, Zero)
        /\ Less(req[i].res.body.predicted_premium.x, Zero)
        /\ req[i].res.body.predicted_premium.x # req[i].pred

\* the bodies agree on the three base fields, and the first gives v as
\* Property Value and the second gives the same v as Coverage A
CoverageSwapped(d1, d2) ==
    /\ \A k \in Range(requiredBase) : Get(d1, k) = Get(d2, k)
    /\ "Property Value" \in DOMAIN d1 /\ "Coverage A" \notin DOMAIN d1
    /\ "Coverage A" \in DOMAIN d2 /\ "Property Value" \notin DOMAIN d2
    /\ d1["Property Value"] = d2["Coverage A"]

\* C7: a request giving 'Property Value': v gets the same status and body as
\* the request giving 'Coverage A': v, for every v.
C7_PropertyValueSameAsCoverageA ==
    \A i, j \in Requests :
        Done(i) /\ Done(j) /\ CoverageSwapped(req[i].body, req[j].body) =>
            req[i].res = req[j].res

(***************************************************************************)
(* Claims about the offline tools.                                         *)
(***************************************************************************)
Exited == proc.pc = "exit"

\* C8: a tool run that fails leaves no artifact it wrote, and a finished run
\* never leaves the model persisted without its scaler.  Checked on the
\* training tool.
C8_NoPartialArtifacts ==
    Exited =>
        /\ proc.exitCode # 0 => modelFile = Missing /\ scalerFile = Missing
        /\ modelFile # Missing => scalerFile # Missing

ZeroVariance ==
    /\ proc.yPred # <<>>
    /\ \A i \in 1..Len(proc.yPred) : IsFinite(proc.yPred[i])
    /\ \A i, j \in 1..Len(proc.yPred) : proc.yPred[i] = proc.yPred[j]

\* C9: a calibration fit on predictions of zero variance ends in an error
\* with no calib.json written, and no calib.json ever holds an a or b that is
\* not a finite number.
C9_DegenerateFitFails ==
    /\ Exited /\ ZeroVariance => proc.exitCode # 0 /\ calibFile = Missing
    /\ calibFile # Missing => calibFile.a.t = "number" /\ calibFile.b.t = "number"

RequiredColumns == Range(features) \cup {"Premiums Per Policy"}

PastSchemaCheck ==
    proc.pc \in {"split", "scale", "fit", "evaluate", "saveModel", "saveScaler", "cleanup"}

\* C10: past the schema check every record has the four feature columns and
\* the target column; a run the check stops ends in an Error that names a
\* column the records lack.
C10_SchemaGuaranteed ==
    /\ PastSchemaCheck =>
        \A i \in 1..Len(proc.df) : RequiredColumns \subseteq DOMAIN proc.df[i]
    /\ Exited /\ proc.df # <<>> /\ proc.X = <<>> =>
        /\ proc.error.name = "Error"
        /\ \E c \in RequiredColumns \ DOMAIN proc.df[1] : c \in Range(proc.error.message)

(***************************************************************************)
(* The life of a request.                                                  *)
(***************************************************************************)
Loading == {"loadModel", "loadScaler", "loadCalibration"}

\* the positions a request may move to from a position
After(pc) ==
    CASE pc = "idle" -> Loading \cup {"predict", "done"}
      [] pc = "loadModel" -> {"loadScaler", "loadCalibration", "predict", "done"}
      [] pc = "loadScaler" -> {"loadCalibration", "predict", "done"}
      [] pc = "loadCalibration" -> {"predict", "done"}
      [] pc = "predict" -> {"done"}
      [] OTHER -> {}

Failed(i) == Done(i) /\ req[i].res.status # 200

\* a request moves forward only, is answered 200 only after inference and
\* 400 only without scaling or inference, and is answered once
C11_Path ==
    [][\A i \in Requests :
          /\ req'[i].pc # req[i].pc => req'[i].pc \in After(req[i].pc)
          /\ req[i].pc # "done" => req[i].res = NoResponse
          /\ Done(i) => req'[i] = req[i]
          /\ req'[i].pc = "done" /\ req[i].pc # "done" =>
                /\ req'[i].res.status \in {200, 400, 500}
                /\ req'[i].res.status = 200 <=> req[i].pc = "predict"
                /\ req'[i].res.status = 400 => req'[i].X = <<>> /\ req'[i].pred = JNull]_vars

\* every request received is answered, whatever became of the others
C11_Answered == \A i \in Requests : req[i].pc # "idle" ~> Done(i)

\* C11 (served after failures): a well-formed request that arrives after
\* some request has been answered with an error is answered 200 with a
\* predicted_premium by a server whose model and scaler load.
C11_StillServed ==
    \A j \in Requests :
        (/\ Done(j) /\ req[j].afterFailure /\ WellFormed(req[j].body)
         /\ modelFile # Missing /\ scalerFile # Missing) =>
            /\ req[j].res.status = 200
            /\ "predicted_premium" \in DOMAIN req[j].res.body

\* C11: every request goes Received, Validated, Scaled, Inferred, Calibrated,
\* Responded or leaves early as rejected; it is answered exactly once, with
\* 200, 400 or 500; a rejected request is never scaled or inferred; a failed
\* request stops no other request from being answered, and a well-formed
\* request that arrives after failed ones is still served.
C11_RequestLifecycle == C11_Path /\ C11_Answered /\ []C11_StillServed

(***************************************************************************)
(* Claims about trainTestSplit.                                            *)
(***************************************************************************)
Returned == proc.pc = "returned"

\* the rows that stand at the positions of an index list
Positions(list, row) == {k \in 1..Len(list) : list[k] = row}

\* C12: for every n, every test fraction in [0, 1] and every integer seed,
\* the shuffled index list is a permutation of the rows, the train side is
\* its first floor(n * (1 - testFraction)) entries and the test side the
\* rest, every row is in exactly one of the two, each feature row comes with
\* its own target, and a second call on the same arguments returns the same.
C12_SplitIsPartition ==
    Returned =>
        LET n      == Len(proc.X)
            r      == proc.split
            cut    == Mul(Num(n), Sub(Num(1), proc.testSize))
            nTrain == Len(r.trainIndices)
        IN  /\ Len(r.indices) = n
            /\ \A row \in 1..n : Cardinality(Positions(r.indices, row)) = 1
            /\ ~Less(cut, Num(nTrain)) /\ Less(cut, Num(nTrain + 1))
            /\ r.trainIndices \o r.testIndices = r.indices
            /\ \A row \in 1..n :
                  Cardinality(Positions(r.trainIndices, row))
                      + Cardinality(Positions(r.testIndices, row)) = 1
            /\ Len(r.X_train) = nTrain /\ Len(r.y_train) = nTrain
            /\ Len(r.X_test) = n - nTrain /\ Len(r.y_test) = n - nTrain
            /\ \A k \in 1..nTrain :
                  /\ r.trainIndices[k] \in 1..n
                  /\ r.X_train[k] = proc.X[r.trainIndices[k]]
                  /\ r.y_train[k] = proc.y[r.trainIndices[k]]
            /\ \A k \in 1..(n - nTrain) :
                  /\ r.testIndices[k] \in 1..n
                  /\ r.X_test[k] = proc.X[r.testIndices[k]]
                  /\ r.y_test[k] = proc.y[r.testIndices[k]]
            /\ proc.again = r

=============================================================================
